---- MODULE Spec2Model ----
(***************************************************************************)
(* A model of morgul-rs: the UDP frame-reassembly listener of              *)
(* src/bin/morgul-live.rs and the trigger-driven replay generator of       *)
(* src/bin/deluge.rs.                                                      *)
(*                                                                         *)
(* Listener part.  Listener 1 is modelled in full (statistics, in-flight   *)
(* frame, buffer pool, receive buffer contents).  The state of a listener  *)
(* is thread-local, so the other listeners of the process are modelled by  *)
(* what they share with listener 1: their position in listen_port (pc,     *)
(* read timeout), the barrier and the lifecycle channel.                   *)
(*                                                                         *)
(* Scaling.  The literals 64 (packets per image), 8192 (payload bytes),    *)
(* THREAD_IMAGE_BUFFER_LENGTH and the width of usize are scaled down; the  *)
(* code is translated with the scaled names in place of the literals.      *)
(***************************************************************************)
EXTENDS Integers, Sequences, FiniteSets, TLC

\* ------------------------------------------------------------------ bounds

\* Packets per image: the literal 64 of morgul-live.rs (lines 207, 243, 249, 273).
PacketsPerImage == 2
\* Payload bytes per packet: the literal 8192 of morgul-live.rs (lines 147, 208, 268).
PAYLOAD_SIZE == 2
\* Buffers per listener pool: THREAD_IMAGE_BUFFER_LENGTH of morgul-live.rs line 27 (10 there).
THREAD_IMAGE_BUFFER_LENGTH == 2
\* Interfaces with the 192. prefix on the Deluge host: 1..MaxInterfaces.
MaxInterfaces == 3
\* Width of usize in bits (64 in the build; the arithmetic is kept modulo 2^w).
UsizeBits == 6
\* frame_number values the environment sends: 1..MaxFrame.
MaxFrame == 3
\* Largest RXQ_OVFL count attached to one datagram.
MaxKernelDrop == 1
\* Listener threads of the process (interfaces.len() * LISTENERS_PER_PORT).
NumListeners == 2

\* Sender threads of the Deluge (interfaces.len() * 4).
NumSenders == 2
\* Images per burst: the literal 2000 of deluge.rs line 57.
FixedImages == 2
\* frames values a trigger carries: 1..MaxTriggerFrames.
MaxTriggerFrames == 2
\* Trigger datagrams that reach the trigger socket.
MaxTriggers == 3
\* The clock advances in steps of TickMs milliseconds up to MaxTime.
TickMs == 250
MaxTime == 500
\* The retrigger window in milliseconds (deluge.rs line 152).
DEBOUNCE_MS == 500

\* Packets the environment sends to listener 1 in one acquisition.
MaxPackets == PacketsPerImage + 1

USIZE_MAX == 2^UsizeBits - 1

Listeners == 1..NumListeners
Peers == Listeners \ {1}
Senders == 1..NumSenders
\* bus::Bus::new(1): the messages a reader may have left unread (deluge.rs line 120).
BUS_LEN == 1
\* exptime values a trigger carries, in milliseconds.
ExpTimes == {0, TickMs}
FrameNumbers == 1..MaxFrame
PacketNumbers == 0..(PacketsPerImage - 1)
\* Option<T>: None is the empty sequence, Some(x) the sequence of x alone.
NONE == <<>>
Some(x) == <<x>>
Unwrap(o) == o[1]
\* socket.set_read_timeout(None)
NoTimeout == "None"

\* The payload of packet k of frame f: PAYLOAD_SIZE bytes, each distinct from
\* every byte of any other packet and from the zero of a fresh buffer.
PayloadBytes(f, k) ==
    [i \in 1..PAYLOAD_SIZE |-> ((f - 1) * PacketsPerImage + k) * PAYLOAD_SIZE + i]

\* Datagrams the socket can deliver: a header (frame_number, packet_number),
\* the payload, and whether the datagram has the expected 48 + 8192 bytes.
\* packet_number = PacketsPerImage stands for every packet_number >= 64.
WellFormed ==
    { [frame_number |-> f, packet_number |-> k, payload |-> PayloadBytes(f, k), size_ok |-> TRUE] :
        f \in FrameNumbers, k \in PacketNumbers }
Malformed ==
    { [frame_number |-> 1, packet_number |-> PacketsPerImage, payload |-> PayloadBytes(1, 0), size_ok |-> TRUE],
      [frame_number |-> 1, packet_number |-> 0, payload |-> PayloadBytes(1, 0), size_ok |-> FALSE] }
Datagrams == WellFormed \cup Malformed

VARIABLES
    \* ---- listen_port, all listeners
    pc,              \* [Listeners -> "recv" | "barrier" | "panicked"]
    read_timeout,    \* [Listeners -> "None" | "500ms"]: socket.set_read_timeout
    \* ---- listen_port, listener 1
    stats,           \* AcquisitionStats
    last_image,      \* Option<ReceiveImage>
    spare_images,    \* Vec<Box<[u8]>>: the pool, top of stack last
    overflow_checks, \* build profile: TRUE panics on usize overflow, FALSE wraps
    \* ---- shared
    chan,            \* mpsc channel state_tx -> state_rx: (port, event) in flight
    barrier_count,   \* Barrier: threads arrived in this generation
    barrier_gen,     \* Barrier: generation_id (parity)
    local_gen,       \* [Listeners -> generation seen on entry to wait()]
    \* ---- history of listener 1 (not program state)
    rx_log,          \* headers of the datagrams received in the current acquisition, in order
    rx_kernel,       \* sum of the RXQ_OVFL counts received in the current acquisition
    sent,            \* lifecycle events published in the current / last acquisition
    ended_stats,     \* the statistics printed when the last acquisition ended, or NONE
    \* ---- history of the barrier (not program state)
    cycle            \* [generation -> who ended, who was leader, who resumed in it]

VARIABLES
    \* ---- deluge.rs, main
    main_pc,         \* "recv" | "broadcast" | "barrier" | "panicked"
    last_trigger,    \* Option<Instant>
    trigger,         \* the trigger main is broadcasting: [frames, exptime]
    broad,           \* datagrams queued in the trigger socket
    bus,             \* [Senders -> triggers broadcast and not yet received]
    \* ---- deluge.rs, send_data
    send_pc,         \* [Senders -> "start" | "sync" | "recv" | "send" | "end_sync"]
    acq,             \* [Senders -> the trigger received]
    start_acq,       \* [Senders -> Instant::now() at the start of the burst]
    image_num,       \* [Senders -> the outer loop counter]
    header,          \* [Senders -> [frame_number, packet_number]]
    \* ---- shared
    sync_count,      \* Barrier: threads arrived in this generation
    sync_gen,        \* Barrier: generation_id (parity)
    sync_local,      \* [thread -> generation seen on entry to wait()], main is 0
    now,             \* the clock, in milliseconds
    \* ---- history (not program state)
    trig_log,        \* per trigger datagram: arrival time, well-formedness, fate
    wire,            \* [Senders -> headers of the datagrams of the last image sent]
    burst_sent,      \* [Senders -> datagrams sent in the current / last burst]
    burst_done,      \* [Senders -> the burst of acq has been sent in full]
    elected          \* bursts: [Senders -> triggers received]; leaders: [burst ->
                     \* senders that logged it]; early: a trigger was broadcast
                     \* before every sender had left the start-up sync.wait()

\* Start-up of the Deluge (deluge.rs, main, lines 101-136).
VARIABLES
    route_pc,        \* "args", "spawn", "done" or "panicked"
    to_first,        \* Option<u8>: args.to_first
    interfaces,      \* interfaces.len()
    to_take,         \* usize: elements of the target cycle skipped
    targets          \* target of each sender spawned so far, in spawn order

dvars == <<main_pc, last_trigger, trigger, broad, bus, send_pc, acq, start_acq,
           image_num, header, sync_count, sync_gen, sync_local, now,
           trig_log, wire, burst_sent, burst_done, elected>>

lvars == <<pc, read_timeout, stats, last_image, spare_images, overflow_checks,
           chan, barrier_count, barrier_gen, local_gen,
           rx_log, rx_kernel, sent, ended_stats, cycle>>

rvars == <<route_pc, to_first, interfaces, to_take, targets>>

vars == <<lvars, dvars, rvars>>

\* ------------------------------------------------------- pure helpers

\* usize arithmetic: the mathematical result and its wrapped value.
WrapUsize(n) == n % (USIZE_MAX + 1)
OutOfUsize(n) == n < 0 \/ n > USIZE_MAX

\* allocate_image_buffer: a zeroed buffer of one image.
allocate_image_buffer == [i \in 1..(PacketsPerImage * PAYLOAD_SIZE) |-> 0]

\* AcquisitionStats::default()
AcquisitionStatsDefault ==
    [images_seen |-> 0, complete_images |-> 0, packets_dropped |-> 0, out_of_order |-> 0]

\* Mutant of CopyFromSlice: the packet number is left out of the offset.
CopyFromSlice_NoOffset(data, pn, payload) ==
    [i \in 1..Len(data) |-> IF i <= PAYLOAD_SIZE THEN payload[i] ELSE data[i]]

\* current_image.data[pn * 8192 .. (pn + 1) * 8192].copy_from_slice(payload)
CopyFromSlice(data, pn, payload) ==
    [i \in 1..Len(data) |->
        IF pn * PAYLOAD_SIZE < i /\ i <= (pn + 1) * PAYLOAD_SIZE
        THEN payload[i - pn * PAYLOAD_SIZE]
        ELSE data[i]]

\* Vec::pop / Vec::push on the pool
Top(pool) == pool[Len(pool)]
Pop(pool) == SubSeq(pool, 1, Len(pool) - 1)
Push(pool, buf) == Append(pool, buf)

NewImage(frame, buf) == [frame_number |-> frame, received_packets |-> 0, data |-> buf]

StartingEvent(port) == [port |-> port, type |-> "Starting", acquisition_number |-> 0]

\* ------------------------------------------- listen_port: one datagram

\* What processing one datagram leaves behind: whether the thread panicked,
\* the statistics, the in-flight frame, the pool, and whether Starting was sent.
Result(p, st, li, sp, starting) ==
    [panic |-> p, stats |-> st, last_image |-> li, spare_images |-> sp, starting |-> starting]

\* Lines 265-284: add the packet to current_image; release the image when complete.
AddPacket(st, cur, sp, d, starting) ==
    LET img == [cur EXCEPT !.received_packets = @ + 1,
                           !.data = CopyFromSlice(@, d.packet_number, d.payload)]
    IN  IF img.received_packets = PacketsPerImage
        THEN Result(FALSE, [st EXCEPT !.complete_images = @ + 1], NONE, Push(sp, img.data), starting)
        ELSE Result(FALSE, st, Some(img), sp, starting)

\* Lines 229-241: a packet of a lower frame_number than the in-flight frame.
StaleFrame(st, cur, sp, checks, starting) ==
    LET st1 == [st EXCEPT !.out_of_order = @ + 1]
        n == st1.packets_dropped - 1
    IN  IF OutOfUsize(n) /\ checks
        THEN Result(TRUE, st1, NONE, sp, starting)
        ELSE Result(FALSE, [st1 EXCEPT !.packets_dropped = WrapUsize(n)], Some(cur), sp, starting)

\* Lines 242-262: a packet of a higher frame_number closes the in-flight frame.
NewFrame(st, cur, sp, d, checks, starting) ==
    LET incomplete == cur.received_packets < PacketsPerImage
        n == st.packets_dropped + (PacketsPerImage - cur.received_packets)
        st1 == IF incomplete THEN [st EXCEPT !.packets_dropped = WrapUsize(n)] ELSE st
        sp1 == IF incomplete THEN Push(sp, cur.data) ELSE sp
        st2 == [st1 EXCEPT !.images_seen = @ + 1]
    IN  IF incomplete /\ OutOfUsize(n) /\ checks
        THEN Result(TRUE, st, NONE, sp, starting)
        ELSE IF sp1 = <<>>
        THEN Result(TRUE, st2, NONE, sp1, starting)
        ELSE AddPacket(st2, NewImage(d.frame_number, Top(sp1)), Pop(sp1), d, starting)

\* Lines 229-263: compare the packet's frame_number with the in-flight frame's.
OnFrame(st, cur, sp, d, checks, starting) ==
    IF d.frame_number = cur.frame_number
    THEN AddPacket(st, cur, sp, d, starting)
    ELSE IF d.frame_number < cur.frame_number
    THEN StaleFrame(st, cur, sp, checks, starting)
    ELSE NewFrame(st, cur, sp, d, checks, starting)

\* Lines 210-226: count a new image and take the in-flight frame or a fresh one.
TakeImage(st, li, sp, d, checks, starting) ==
    IF li = NONE
    THEN LET st1 == [st EXCEPT !.images_seen = @ + 1]
         IN  IF sp = <<>>
             THEN Result(TRUE, st1, NONE, sp, starting)
             ELSE OnFrame(st1, NewImage(d.frame_number, Top(sp)), Pop(sp), d, checks, starting)
    ELSE OnFrame(st, Unwrap(li), sp, d, checks, starting)

\* Lines 201-208: the two assertions on the datagram.
CheckDatagram(st, li, sp, d, checks, starting) ==
    IF d.packet_number < PacketsPerImage /\ d.size_ok
    THEN TakeImage(st, li, sp, d, checks, starting)
    ELSE Result(TRUE, st, li, sp, starting)

\* Lines 181-199: kernel drop count, then the start-of-acquisition test.
ListenPacket(st, li, sp, d, dropped, checks) ==
    LET n == st.packets_dropped + dropped
        st1 == IF dropped > 0 THEN [st EXCEPT !.packets_dropped = WrapUsize(n)] ELSE st
    IN  IF dropped > 0 /\ OutOfUsize(n) /\ checks
        THEN Result(TRUE, st, li, sp, FALSE)
        ELSE CheckDatagram(st1, li, sp, d, checks, li = NONE)

\* ------------------------------------------------------ history helpers

\* What the history keeps of a received datagram: its header fields and
\* whether its size was right.
LogEntry(d) ==
    [frame_number |-> d.frame_number, packet_number |-> d.packet_number, size_ok |-> d.size_ok]

\* ---------------------------------------------------------------- barrier

\* Barrier::wait of thread l: the last of NumListeners arrivals releases the
\* generation and is its leader; any other blocks until the generation changes.
BarrierArrive(l) ==
    IF barrier_count + 1 < NumListeners
    THEN /\ barrier_count' = barrier_count + 1
         /\ barrier_gen' = barrier_gen
         /\ local_gen' = [local_gen EXCEPT ![l] = barrier_gen]
    ELSE /\ barrier_count' = 0
         /\ barrier_gen' = ~barrier_gen
         /\ local_gen' = local_gen

\* Mutant of BarrierPasses: the barrier releases one arrival early.
BarrierPasses_Early == barrier_count + 1 >= NumListeners - 1

BarrierPasses == barrier_count + 1 >= NumListeners

\* A rendezvous cycle nobody has entered yet.
NoCycle == [ended |-> {}, leaders |-> {}, resumed |-> {}]

\* Thread l enters barrier.wait() in the current generation; when the wait
\* returns at once it is the leader (is_leader(), lines 295-297) and resumes.
CycleArrive(l) ==
    LET c == IF barrier_count = 0 THEN NoCycle ELSE cycle[barrier_gen]
    IN  cycle' = [cycle EXCEPT ![barrier_gen] =
                     [ended |-> c.ended \cup {l},
                      leaders |-> IF BarrierPasses THEN c.leaders \cup {l} ELSE c.leaders,
                      resumed |-> IF BarrierPasses THEN c.resumed \cup {l} ELSE c.resumed]]

\* Thread l returns from barrier.wait(), not as leader, and resumes.  The
\* history of a cycle is cleared when the last of its threads has resumed.
CycleWake(l) ==
    LET c == cycle[local_gen[l]]
    IN  cycle' = [cycle EXCEPT ![local_gen[l]] =
                     IF c.resumed \cup {l} = Listeners
                     THEN NoCycle
                     ELSE [c EXCEPT !.resumed = @ \cup {l}]]

\* ------------------------------------------------------------------ actions

\* The channel is unbounded and the coordinator does nothing but recv() from
\* it, so CoordinatorRecv commutes with every listener step.  The model keeps
\* the channel finite by letting the coordinator take a published event
\* before any listener moves on.
ChanDrained == chan = <<>>

ListenerInit ==
    /\ pc = [l \in Listeners |-> "recv"]
    /\ read_timeout = [l \in Listeners |-> NoTimeout]
    /\ stats = AcquisitionStatsDefault
    /\ last_image = NONE
    /\ spare_images = [i \in 1..THREAD_IMAGE_BUFFER_LENGTH |-> allocate_image_buffer]
    /\ overflow_checks \in BOOLEAN
    /\ chan = <<>>
    /\ barrier_count = 0
    /\ barrier_gen = FALSE
    /\ local_gen = [l \in Listeners |-> FALSE]
    /\ rx_log = <<>>
    /\ rx_kernel = 0
    /\ sent = <<>>
    /\ ended_stats = NONE
    /\ cycle = [g \in BOOLEAN |-> NoCycle]

\* Mutant of LoopTop: stats is declared outside the outer loop and survives it.
LoopTop_KeepStats(l) ==
    /\ read_timeout' = [read_timeout EXCEPT ![l] = NoTimeout]
    /\ IF l = 1
       THEN /\ stats' = stats
            /\ last_image' = NONE
       ELSE UNCHANGED <<stats, last_image>>

\* Top of the outer loop (lines 158-164): fresh statistics, no in-flight frame
\* (an image still held by last_image is dropped with its buffer), no timeout.
LoopTop(l) ==
    /\ read_timeout' = [read_timeout EXCEPT ![l] = NoTimeout]
    /\ IF l = 1
       THEN /\ stats' = AcquisitionStatsDefault
            /\ last_image' = NONE
       ELSE UNCHANGED <<stats, last_image>>

\* Listener 1 receives datagram d carrying the RXQ_OVFL count dropped (lines 168-284).
RecvPacket(d, dropped) ==
    /\ pc[1] = "recv"
    /\ ChanDrained
    /\ Len(rx_log) < MaxPackets
    /\ LET r == ListenPacket(stats, last_image, spare_images, d, dropped, overflow_checks)
           first == read_timeout[1] = NoTimeout
       IN  /\ stats' = r.stats
           /\ last_image' = r.last_image
           /\ spare_images' = r.spare_images
           /\ pc' = [pc EXCEPT ![1] = IF r.panic THEN "panicked" ELSE "recv"]
           /\ read_timeout' = [read_timeout EXCEPT ![1] = IF r.starting THEN "500ms" ELSE @]
           /\ chan' = IF r.starting THEN Append(chan, StartingEvent(1)) ELSE chan
           /\ sent' = (IF first THEN <<>> ELSE sent) \o
                      (IF r.starting THEN <<StartingEvent(1)>> ELSE <<>>)
           /\ ended_stats' = IF first THEN NONE ELSE ended_stats
           /\ rx_log' = Append(rx_log, LogEntry(d))
           /\ rx_kernel' = rx_kernel + dropped
    /\ UNCHANGED <<overflow_checks, barrier_count, barrier_gen, local_gen, cycle>>
    /\ UNCHANGED <<dvars, rvars>>

\* Another listener receives a datagram: it may publish Starting (when it has no
\* frame in flight) and it may hit one of the fatal conditions.
PeerRecvPacket(l, starting, fatal) ==
    /\ l \in Peers
    /\ pc[l] = "recv"
    /\ ChanDrained
    /\ starting \/ read_timeout[l] = "500ms"
    /\ pc' = [pc EXCEPT ![l] = IF fatal THEN "panicked" ELSE "recv"]
    /\ read_timeout' = [read_timeout EXCEPT ![l] = "500ms"]
    /\ chan' = IF starting THEN Append(chan, StartingEvent(l)) ELSE chan
    /\ UNCHANGED <<stats, last_image, spare_images, overflow_checks,
                   barrier_count, barrier_gen, local_gen,
                   rx_log, rx_kernel, sent, ended_stats, cycle>>
    /\ UNCHANGED <<dvars, rvars>>

\* recvmsg of listener l returns EAGAIN (lines 175, 287-298): the acquisition
\* ends, the statistics are printed and the thread enters barrier.wait().
RecvTimeout(l) ==
    /\ pc[l] = "recv"
    /\ ChanDrained
    /\ read_timeout[l] = "500ms"
    /\ BarrierArrive(l)
    /\ CycleArrive(l)
    /\ IF BarrierPasses
       THEN /\ pc' = pc
            /\ LoopTop(l)
       ELSE /\ pc' = [pc EXCEPT ![l] = "barrier"]
            /\ UNCHANGED <<read_timeout, stats, last_image>>
    /\ IF l = 1
       THEN /\ ended_stats' = Some(stats)
            /\ rx_log' = <<>>
            /\ rx_kernel' = 0
       ELSE UNCHANGED <<ended_stats, rx_log, rx_kernel>>
    /\ UNCHANGED <<spare_images, overflow_checks, chan, sent>>
    /\ UNCHANGED <<dvars, rvars>>

\* A thread blocked in barrier.wait() sees the generation change and goes on
\* to the top of the outer loop (lines 294-299).
BarrierWake(l) ==
    /\ pc[l] = "barrier"
    /\ ChanDrained
    /\ local_gen[l] # barrier_gen
    /\ pc' = [pc EXCEPT ![l] = "recv"]
    /\ LoopTop(l)
    /\ CycleWake(l)
    /\ UNCHANGED <<spare_images, overflow_checks, chan, barrier_count, barrier_gen,
                   local_gen, rx_log, rx_kernel, sent, ended_stats>>
    /\ UNCHANGED <<dvars, rvars>>

\* The coordinator's loop in main (lines 346-349): state_rx.recv().
CoordinatorRecv ==
    /\ chan # <<>>
    /\ chan' = Tail(chan)
    /\ UNCHANGED <<pc, read_timeout, stats, last_image, spare_images, overflow_checks,
                   barrier_count, barrier_gen, local_gen,
                   rx_log, rx_kernel, sent, ended_stats, cycle>>
    /\ UNCHANGED <<dvars, rvars>>

\* ------------------------------------------------------------- deluge.rs

\* Mutant of Retrigger: the comparison is the wrong way round.
Retrigger_Reversed(last, t) ==
    last # NONE /\ t - Unwrap(last) > DEBOUNCE_MS

\* Lines 151-152: a trigger read at time t less than 500 ms after last_trigger.
Retrigger(last, t) ==
    last # NONE /\ t - Unwrap(last) < DEBOUNCE_MS

\* Mutant of SendLoop: packet_number is not advanced between datagrams.
SendLoop_Stuck(h, n) == [i \in 1..n |-> h]

\* Lines 64-69: the inner loop sends PacketsPerImage datagrams, each with the
\* header as it stands, and adds 1 to packet_number after each.
RECURSIVE SendLoop(_, _)
SendLoop(h, n) ==
    IF n = 0 THEN <<>>
    ELSE <<h>> \o SendLoop([h EXCEPT !.packet_number = @ + 1], n - 1)

\* Barrier::wait of thread t (0 is main) on the barrier of NumSenders parties.
SyncArrive(t) ==
    IF sync_count + 1 < NumSenders
    THEN /\ sync_count' = sync_count + 1
         /\ sync_gen' = sync_gen
         /\ sync_local' = [sync_local EXCEPT ![t] = sync_gen]
    ELSE /\ sync_count' = 0
         /\ sync_gen' = ~sync_gen
         /\ sync_local' = sync_local

SyncPasses == sync_count + 1 >= NumSenders

\* A panic of the main thread ends the process.
MainAlive == main_pc # "panicked"

\* The bus has room when no reader has BUS_LEN messages unread.
BusHasRoom == \A s \in Senders : Len(bus[s]) < BUS_LEN

\* The main thread can take a step.  It blocks only in recv, broadcast and
\* barrier.wait, so a step it can take is taken before the clock advances.
MainRunnable ==
    \/ main_pc = "recv" /\ broad # <<>>
    \/ main_pc = "broadcast" /\ BusHasRoom
    \/ main_pc = "barrier" /\ sync_local[0] # sync_gen

\* The trigger whose broadcast main is in: the last one accepted.
LastAccepted ==
    CHOOSE i \in DOMAIN trig_log :
        /\ trig_log[i].fate = "accepted"
        /\ \A j \in DOMAIN trig_log : trig_log[j].fate = "accepted" => j <= i

DelugeInit ==
    /\ main_pc = "recv"
    /\ last_trigger = NONE
    /\ trigger = NONE
    /\ broad = <<>>
    /\ bus = [s \in Senders |-> <<>>]
    /\ send_pc = [s \in Senders |-> "start"]
    /\ acq = [s \in Senders |-> NONE]
    /\ start_acq = [s \in Senders |-> 0]
    /\ image_num = [s \in Senders |-> 0]
    /\ header = [s \in Senders |-> [frame_number |-> 0, packet_number |-> 0]]
    /\ sync_count = 0
    /\ sync_gen = FALSE
    /\ sync_local = [t \in 0..NumSenders |-> FALSE]
    /\ now = 0
    /\ trig_log = <<>>
    /\ wire = [s \in Senders |-> <<>>]
    /\ burst_sent = [s \in Senders |-> 0]
    /\ burst_done = [s \in Senders |-> FALSE]
    /\ elected = [bursts |-> [s \in Senders |-> 0],
                  leaders |-> [k \in 1..MaxTriggers |-> {}],
                  early |-> FALSE]

\* Datagrams of the size of DelugeTrigger, and one of another size.
WellFormedTriggers ==
    { [frames |-> f, exptime |-> e, size_ok |-> TRUE] : f \in 1..MaxTriggerFrames, e \in ExpTimes }

MalformedTriggers == { [frames |-> 1, exptime |-> 0, size_ok |-> FALSE] }

Triggers == WellFormedTriggers \cup MalformedTriggers

\* A datagram reaches the trigger socket.
TriggerArrives(t) ==
    /\ MainAlive
    /\ Len(trig_log) < MaxTriggers
    /\ broad' = Append(broad, t)
    /\ trig_log' = Append(trig_log, [arrival |-> now, size_ok |-> t.size_ok,
                                     fate |-> "queued", read_at |-> 0, done_at |-> -1])
    /\ UNCHANGED <<main_pc, last_trigger, trigger, bus, send_pc, acq, start_acq, image_num,
                   header, sync_count, sync_gen, sync_local, now, wire, burst_sent, burst_done, elected>>
    /\ UNCHANGED <<lvars, rvars>>

\* main, lines 147-156: receive a datagram, check its size, ignore a retrigger.
MainRecv ==
    /\ main_pc = "recv"
    /\ broad # <<>>
    /\ LET t == Head(broad)
           i == Len(trig_log) - Len(broad) + 1
           fate == IF ~t.size_ok THEN "panic"
                   ELSE IF Retrigger(last_trigger, now) THEN "ignored"
                   ELSE "accepted"
       IN  /\ broad' = Tail(broad)
           /\ trig_log' = [trig_log EXCEPT ![i].fate = fate, ![i].read_at = now]
           /\ main_pc' = CASE fate = "panic" -> "panicked"
                           [] fate = "ignored" -> "recv"
                           [] OTHER -> "broadcast"
           /\ last_trigger' = IF fate = "ignored" THEN Some(now) ELSE last_trigger
           /\ trigger' = IF fate = "accepted"
                         THEN Some([frames |-> t.frames, exptime |-> t.exptime])
                         ELSE trigger
    /\ UNCHANGED <<bus, send_pc, acq, start_acq, image_num, header, sync_count, sync_gen,
                   sync_local, now, wire, burst_sent, burst_done, elected>>
    /\ UNCHANGED <<lvars, rvars>>

\* main, lines 158-165: broadcast the trigger, then barrier.wait(); when the
\* wait returns at once, last_trigger is set.
MainBroadcast ==
    /\ main_pc = "broadcast"
    /\ BusHasRoom
    /\ bus' = [s \in Senders |-> Append(bus[s], Unwrap(trigger))]
    /\ trigger' = NONE
    /\ SyncArrive(0)
    /\ elected' = [elected EXCEPT !.early = @ \/ \E s \in Senders : send_pc[s] \in {"start", "sync"}]
    /\ IF SyncPasses
       THEN /\ main_pc' = "recv"
            /\ last_trigger' = Some(now)
            /\ trig_log' = [trig_log EXCEPT ![LastAccepted].done_at = now]
       ELSE /\ main_pc' = "barrier"
            /\ last_trigger' = last_trigger
            /\ trig_log' = trig_log
    /\ UNCHANGED <<broad, send_pc, acq, start_acq, image_num, header, now,
                   wire, burst_sent, burst_done>>
    /\ UNCHANGED <<lvars, rvars>>

\* main, lines 164-165: the barrier releases main.
MainWake ==
    /\ main_pc = "barrier"
    /\ sync_local[0] # sync_gen
    /\ main_pc' = "recv"
    /\ last_trigger' = Some(now)
    /\ trig_log' = [trig_log EXCEPT ![LastAccepted].done_at = now]
    /\ UNCHANGED <<trigger, broad, bus, send_pc, acq, start_acq, image_num, header,
                   sync_count, sync_gen, sync_local, now, wire, burst_sent, burst_done, elected>>
    /\ UNCHANGED <<lvars, rvars>>

\* send_data, line 47: the first sync.wait().
SenderStart(s) ==
    /\ MainAlive
    /\ send_pc[s] = "start"
    /\ SyncArrive(s)
    /\ send_pc' = [send_pc EXCEPT ![s] = IF SyncPasses THEN "recv" ELSE "sync"]
    /\ UNCHANGED <<main_pc, last_trigger, trigger, broad, bus, acq, start_acq, image_num,
                   header, now, trig_log, wire, burst_sent, burst_done, elected>>
    /\ UNCHANGED <<lvars, rvars>>

\* send_data, lines 47 and 75: the barrier releases sender s.
SenderWake(s) ==
    /\ MainAlive
    /\ send_pc[s] \in {"sync", "end_sync"}
    /\ sync_local[s] # sync_gen
    /\ send_pc' = [send_pc EXCEPT ![s] = "recv"]
    /\ UNCHANGED <<main_pc, last_trigger, trigger, broad, bus, acq, start_acq, image_num,
                   header, sync_count, sync_gen, sync_local, now, trig_log, wire,
                   burst_sent, burst_done, elected>>
    /\ UNCHANGED <<lvars, rvars>>

\* send_data, lines 49-56: receive the trigger and note the start of the burst.
SenderRecvTrigger(s) ==
    /\ MainAlive
    /\ send_pc[s] = "recv"
    /\ bus[s] # <<>>
    /\ acq' = [acq EXCEPT ![s] = Some(Head(bus[s]))]
    /\ bus' = [bus EXCEPT ![s] = Tail(@)]
    /\ start_acq' = [start_acq EXCEPT ![s] = now]
    /\ image_num' = [image_num EXCEPT ![s] = 0]
    /\ send_pc' = [send_pc EXCEPT ![s] = "send"]
    /\ burst_sent' = [burst_sent EXCEPT ![s] = 0]
    /\ burst_done' = [burst_done EXCEPT ![s] = FALSE]
    /\ elected' = [elected EXCEPT !.bursts[s] = @ + 1]
    /\ UNCHANGED <<main_pc, last_trigger, trigger, broad, header, sync_count, sync_gen,
                   sync_local, now, trig_log, wire>>
    /\ UNCHANGED <<lvars, rvars>>

\* send_data, lines 57-73: one pass of the outer loop, once the sleep to
\* image_num * exptime is over: PacketsPerImage datagrams, then the next frame.
SendImage(s) ==
    /\ MainAlive
    /\ send_pc[s] = "send"
    /\ image_num[s] < FixedImages
    /\ now - start_acq[s] >= image_num[s] * Unwrap(acq[s]).exptime
    /\ LET sent_now == SendLoop(header[s], PacketsPerImage)
       IN  /\ wire' = [wire EXCEPT ![s] = sent_now]
           /\ burst_sent' = [burst_sent EXCEPT ![s] = @ + Len(sent_now)]
    /\ header' = [header EXCEPT ![s] = [frame_number |-> @.frame_number + 1, packet_number |-> 0]]
    /\ image_num' = [image_num EXCEPT ![s] = @ + 1]
    /\ UNCHANGED <<main_pc, last_trigger, trigger, broad, bus, send_pc, acq, start_acq,
                   sync_count, sync_gen, sync_local, now, trig_log, burst_done, elected>>
    /\ UNCHANGED <<lvars, rvars>>

\* send_data, lines 74-81: the outer loop is over; sync.wait().
SenderEndBurst(s) ==
    /\ MainAlive
    /\ send_pc[s] = "send"
    /\ image_num[s] = FixedImages
    /\ burst_done' = [burst_done EXCEPT ![s] = TRUE]
    /\ SyncArrive(s)
    /\ elected' = IF SyncPasses
                  THEN [elected EXCEPT !.leaders[elected.bursts[s]] = @ \cup {s}]
                  ELSE elected
    /\ send_pc' = [send_pc EXCEPT ![s] = IF SyncPasses THEN "recv" ELSE "end_sync"]
    /\ UNCHANGED <<main_pc, last_trigger, trigger, broad, bus, acq, start_acq, image_num,
                   header, now, trig_log, wire, burst_sent>>
    /\ UNCHANGED <<lvars, rvars>>

\* Time passes while the main thread is blocked.
Tick ==
    /\ MainAlive
    /\ ~MainRunnable
    /\ now < MaxTime
    /\ now' = now + TickMs
    /\ UNCHANGED <<main_pc, last_trigger, trigger, broad, bus, send_pc, acq, start_acq,
                   image_num, header, sync_count, sync_gen, sync_local,
                   trig_log, wire, burst_sent, burst_done, elected>>
    /\ UNCHANGED <<lvars, rvars>>

DelugeNext ==
    \/ \E t \in Triggers : TriggerArrives(t)
    \/ MainRecv
    \/ MainBroadcast
    \/ MainWake
    \/ \E s \in Senders : SenderStart(s)
    \/ \E s \in Senders : SenderWake(s)
    \/ \E s \in Senders : SenderRecvTrigger(s)
    \/ \E s \in Senders : SendImage(s)
    \/ \E s \in Senders : SenderEndBurst(s)
    \/ Tick

\* ------------------------------------------- deluge.rs: start-up routing

\* The literal 9 of unwrap_or(9) and of `9 - ...` (line 117).
TO_FIRST_DEFAULT == 9
\* The literal 9 of repeat_n(args.target, 9) and repeat_n(target_2, 9).
TARGET_RUN == 9
\* Sender threads per interface: the literal 4 of lines 119, 123, 124.
SENDERS_PER_INTERFACE == 4
\* to_first is a u8.
U8Bits == 8

U8_MAX == 2^U8Bits - 1

\* Values of args.to_first: absent, or any u8.
ToFirstArgs == {NONE} \cup { Some(n) : n \in 0..U8_MAX }

\* Option::unwrap_or.
UnwrapOr(o, dflt) == IF o = NONE THEN dflt ELSE Unwrap(o)

\* Lines 125-127: element k (from 0) of the cycle of TARGET_RUN times the
\* primary target then TARGET_RUN times the secondary.
TargetCycle(k) == IF k % (2 * TARGET_RUN) < TARGET_RUN THEN "target" ELSE "target_2"

RoutingInit ==
    /\ route_pc = "args"
    /\ to_first = NONE
    /\ interfaces = 0
    /\ to_take = 0
    /\ targets = <<>>

\* main, lines 101-117: the arguments, the interfaces, and
\* to_take = (9 - to_first.unwrap_or(9)).into(), a subtraction in u8.
ParseArgs(arg, n) ==
    /\ route_pc = "args"
    /\ to_first' = arg
    /\ interfaces' = n
    /\ LET d == TO_FIRST_DEFAULT - UnwrapOr(arg, TO_FIRST_DEFAULT)
       IN  IF d < 0 /\ overflow_checks
           THEN route_pc' = "panicked" /\ to_take' = to_take
           ELSE route_pc' = "spawn" /\ to_take' = d % (U8_MAX + 1)
    /\ targets' = targets
    /\ UNCHANGED <<lvars, dvars>>

\* main, lines 122-136: the next sender, with the next element of the target
\* cycle after the to_take skipped ones.
SpawnSender ==
    /\ route_pc = "spawn"
    /\ Len(targets) < SENDERS_PER_INTERFACE * interfaces
    /\ targets' = Append(targets, TargetCycle(to_take + Len(targets)))
    /\ route_pc' = IF Len(targets') = SENDERS_PER_INTERFACE * interfaces THEN "done" ELSE "spawn"
    /\ UNCHANGED <<to_first, interfaces, to_take>>
    /\ UNCHANGED <<lvars, dvars>>

RoutingNext ==
    \/ \E arg \in ToFirstArgs, n \in 1..MaxInterfaces : ParseArgs(arg, n)
    \/ SpawnSender

Init == ListenerInit /\ DelugeInit /\ RoutingInit

Next ==
    \/ \E d \in Datagrams, dropped \in 0..MaxKernelDrop : RecvPacket(d, dropped)
    \/ \E l \in Peers, starting \in BOOLEAN, fatal \in BOOLEAN : PeerRecvPacket(l, starting, fatal)
    \/ \E l \in Listeners : RecvTimeout(l)
    \/ \E l \in Listeners : BarrierWake(l)
    \/ CoordinatorRecv

Spec == Init /\ [][Next]_vars

SpecDeluge == Init /\ [][DelugeNext]_vars

\* The threads of the listener process keep running: a timeout that is due
\* fires, a released thread leaves the barrier, the coordinator receives.
\* Nothing obliges the network to deliver a packet.
SpecLive ==
    /\ Init
    /\ [][Next]_vars
    /\ \A l \in Listeners : WF_vars(RecvTimeout(l)) /\ WF_vars(BarrierWake(l))
    /\ WF_vars(CoordinatorRecv)

SpecRouting == Init /\ [][RoutingNext]_vars

\* ------------------------------------------------- listener: properties

\* Listener 1 blocks in recvmsg with no timeout: it waits for the first
\* packet of an acquisition.
Idle == pc[1] = "recv" /\ read_timeout[1] = NoTimeout

InFlight == Unwrap(last_image)

StartingCount == Len(SelectSeq(sent, LAMBDA e : e.type = "Starting"))
EndedEvents == SelectSeq(sent, LAMBDA e : e.type = "Ended")

\* Positions of the log that hold a well-formed packet of frame f.
LogOf(f) == { i \in 1..Len(rx_log) : rx_log[i].frame_number = f /\ rx_log[i].size_ok
                                      /\ rx_log[i].packet_number \in PacketNumbers }
PacketsOf(f) == { rx_log[i].packet_number : i \in LogOf(f) }

\* The acquisition so far is exactly the PacketsPerImage packets of frame f,
\* each once, in some order.
LogIsPermutation(f) ==
    /\ Len(rx_log) = PacketsPerImage
    /\ LogOf(f) = 1..Len(rx_log)
    /\ PacketsOf(f) = PacketNumbers

\* Bytes [k * PAYLOAD_SIZE, (k + 1) * PAYLOAD_SIZE) of a buffer.
Slot(data, k) == SubSeq(data, k * PAYLOAD_SIZE + 1, (k + 1) * PAYLOAD_SIZE)

\* C1: when listener 1, starting from Idle, has processed the PacketsPerImage
\* packets of one frame in any order (no duplicate, no other packet), it has
\* counted one image seen and one complete image, holds no frame in flight,
\* and the buffer it has just released holds the payload of packet k in
\* slot k, for every k.
C1_Reassembly ==
    \A f \in FrameNumbers :
        LogIsPermutation(f) =>
            /\ pc[1] = "recv"
            /\ stats.images_seen = 1
            /\ stats.complete_images = 1
            /\ last_image = NONE
            /\ spare_images # <<>>
            /\ \A k \in PacketNumbers : Slot(Top(spare_images), k) = PayloadBytes(f, k)

\* A frame completed from packets that arrived last-first, in a buffer that
\* an earlier acquisition had used and after a buffer had left the pool.
C1_Witness ==
    /\ LogIsPermutation(MaxFrame)
    /\ rx_log[1].packet_number = PacketsPerImage - 1
    /\ stats.complete_images = 1
    /\ Len(spare_images) < THREAD_IMAGE_BUFFER_LENGTH

\* C2: the buffers checked out of the pool are as many as the frames in
\* flight (0 or 1), in every state of a running listener.
C2_BufferConservation ==
    pc[1] # "panicked" =>
        THREAD_IMAGE_BUFFER_LENGTH - Len(spare_images) = (IF last_image = NONE THEN 0 ELSE 1)

\* The in-flight frame has counted m packets, all the packets of its frame
\* received so far, with distinct packet numbers, and d is of a higher frame.
C3_Pre(d) ==
    /\ last_image # NONE
    /\ d.frame_number > InFlight.frame_number
    /\ InFlight.received_packets < PacketsPerImage
    /\ Cardinality(LogOf(InFlight.frame_number)) = InFlight.received_packets
    /\ Cardinality(PacketsOf(InFlight.frame_number)) = InFlight.received_packets

C3_Post(d, dropped) ==
    /\ pc'[1] = "recv"
    /\ stats'.packets_dropped =
           stats.packets_dropped + (PacketsPerImage - InFlight.received_packets) + dropped
    /\ stats'.images_seen = stats.images_seen + 1
    /\ Len(spare_images') = Len(spare_images)
    /\ last_image' = Some([frame_number |-> d.frame_number, received_packets |-> 1,
                           data |-> CopyFromSlice(InFlight.data, d.packet_number, d.payload)])

\* C3: when the in-flight frame has m < PacketsPerImage distinct packets and
\* a packet of a higher frame_number is processed, that step adds
\* PacketsPerImage - m (plus the kernel's count) to packets_dropped, adds 1 to
\* images_seen, hands the frame's buffer back, and makes the packet the first
\* of the new in-flight frame.
C3_LossAccounting ==
    [][\A d \in WellFormed, dropped \in 0..MaxKernelDrop :
          (RecvPacket(d, dropped) /\ C3_Pre(d)) => C3_Post(d, dropped)]_vars

\* C4: a packet of a lower frame_number than the in-flight frame's (with no
\* kernel drop count attached) adds 1 to out_of_order, takes 1 from
\* packets_dropped whatever its value, leaves the in-flight frame and the pool
\* as they are, and the listener keeps running.
C4_OutOfOrder ==
    [][\A d \in WellFormed :
          (RecvPacket(d, 0) /\ last_image # NONE /\ d.frame_number < InFlight.frame_number) =>
              /\ pc'[1] = "recv"
              /\ stats'.out_of_order = stats.out_of_order + 1
              /\ stats'.packets_dropped = stats.packets_dropped - 1
              /\ last_image' = last_image
              /\ spare_images' = spare_images]_vars

\* The acquisition so far is scenario S3: all packets of frame f but packet j,
\* then one packet of a lower frame, then packet j of frame f; no kernel drops.
LateStraggler(f, j) ==
    /\ Len(rx_log) = PacketsPerImage + 1
    /\ rx_kernel = 0
    /\ \A i \in 1..Len(rx_log) : rx_log[i].size_ok /\ rx_log[i].packet_number \in PacketNumbers
    /\ { rx_log[i].packet_number : i \in 1..(PacketsPerImage - 1) } = PacketNumbers \ {j}
    /\ \A i \in 1..(PacketsPerImage - 1) : rx_log[i].frame_number = f
    /\ rx_log[PacketsPerImage].frame_number < f
    /\ rx_log[PacketsPerImage + 1].frame_number = f
    /\ rx_log[PacketsPerImage + 1].packet_number = j

\* C5: after scenario S3 the statistics of the acquisition are
\* complete_images = 1, out_of_order = 1, packets_dropped = 0.
C5_LateStraggler ==
    \A f \in FrameNumbers, j \in PacketNumbers :
        LateStraggler(f, j) =>
            /\ pc[1] = "recv"
            /\ stats.complete_images = 1
            /\ stats.out_of_order = 1
            /\ stats.packets_dropped = 0

\* C6: once an acquisition of listener 1 has ended by timeout, the listener
\* has published exactly one Ended event for it, carrying the statistics of
\* that acquisition.
C6_EndedOnce ==
    ended_stats # NONE =>
        EndedEvents = <<[port |-> 1, type |-> "Ended", stats |-> Unwrap(ended_stats)]>>

\* Every datagram of the acquisition so far is well formed and no header
\* came twice.
LogClean ==
    /\ \A i \in 1..Len(rx_log) : rx_log[i].size_ok /\ rx_log[i].packet_number \in PacketNumbers
    /\ \A i, j \in 1..Len(rx_log) : rx_log[i] = rx_log[j] => i = j

\* C7: in an acquisition that has received at least one packet (all of them
\* well formed, none twice), listener 1 has published Starting exactly once,
\* however many frames have completed.
C7_StartingOnce ==
    (rx_log # <<>> /\ LogClean) => StartingCount = 1

\* C8: whenever listener 1 waits for the first packet of an acquisition, the
\* four counters are zero and there is no frame in flight.
C8_StatsReset ==
    Idle => stats = AcquisitionStatsDefault /\ last_image = NONE

\* Listener 1 is Idle again after an acquisition that had counted images and
\* dropped packets and that ended with a frame in flight.
C8_Witness ==
    /\ Idle
    /\ ended_stats # NONE
    /\ Unwrap(ended_stats).images_seen > 1
    /\ Unwrap(ended_stats).packets_dropped > 0
    /\ Unwrap(ended_stats).complete_images > 0
    /\ Len(spare_images) < THREAD_IMAGE_BUFFER_LENGTH

\* ------------------------------------------------- properties of the Deluge

\* C9: when a sender has finished the burst of a trigger (frames = F), it has
\* sent exactly PacketsPerImage * F datagrams in that burst.
C9_HonoursFrames ==
    \A s \in Senders :
        burst_done[s] => burst_sent[s] = PacketsPerImage * Unwrap(acq[s]).frames

\* Trigger j came less than DEBOUNCE_MS after the accepted trigger i, both of
\* the right size.
Within(i, j) ==
    /\ i < j
    /\ trig_log[i].size_ok
    /\ trig_log[j].size_ok
    /\ trig_log[i].fate = "accepted"
    /\ trig_log[j].arrival - trig_log[i].arrival < DEBOUNCE_MS

\* C10: a well-formed trigger that arrives less than 500 ms after an accepted
\* one is never accepted for broadcast, whether it is read while the main
\* thread was held at the barrier or after.
C10_Debounce ==
    \A i, j \in DOMAIN trig_log : Within(i, j) => trig_log[j].fate # "accepted"

\* Both cases of C10 have happened: a trigger ignored after waiting in the
\* socket while main was at the barrier, and one ignored as soon as it came.
C10_Witness ==
    /\ \E i, j \in DOMAIN trig_log :
          /\ Within(i, j)
          /\ trig_log[j].fate = "ignored"
          /\ trig_log[j].read_at > trig_log[j].arrival
    /\ \E i, j \in DOMAIN trig_log :
          /\ Within(i, j)
          /\ trig_log[j].fate = "ignored"
          /\ trig_log[j].read_at = trig_log[j].arrival

\* C11: a well-formed trigger is ignored only if the barrier wait of the most
\* recently accepted trigger returned less than 500 ms before it was read,
\* whatever triggers were ignored in between.
C11_WindowFromAccepted ==
    \A j \in DOMAIN trig_log :
        (trig_log[j].size_ok /\ trig_log[j].fate = "ignored") =>
            \E i \in DOMAIN trig_log :
                /\ i < j
                /\ trig_log[i].fate = "accepted"
                /\ trig_log[i].done_at >= 0
                /\ trig_log[j].read_at - trig_log[i].done_at < DEBOUNCE_MS

\* The datagrams of one frame as the claim wants them: PacketsPerImage of
\* them, one frame_number, packet_number 0, 1, ... in that order.
InOrder(img) ==
    /\ Len(img) = PacketsPerImage
    /\ \A k \in 1..Len(img) :
          /\ img[k].packet_number = k - 1
          /\ img[k].frame_number = img[1].frame_number

\* C12: every frame a sender emits, in any burst, is PacketsPerImage
\* datagrams with packet_number 0, 1, ... in order, and its frame_number is
\* that of the frame the sender emitted before it plus 1, also when the
\* frame before was the last of the previous burst.
C12_PacketOrder ==
    [][\A s \in Senders :
          wire'[s] # wire[s] =>
              /\ InOrder(wire'[s])
              /\ wire[s] # <<>> => wire'[s][1].frame_number = wire[s][1].frame_number + 1]_vars

\* A sender has emitted the first frame of its second burst.
C12_Witness ==
    \E s \in Senders :
        /\ wire[s] # <<>>
        /\ wire[s][1].frame_number = FixedImages
        /\ image_num[s] = 1
        /\ burst_sent[s] = PacketsPerImage

\* C13: a trigger datagram of the wrong size, once read, has been dropped and
\* nothing else: the main loop is still running, ready for later triggers.
C13_MalformedDropped ==
    \A j \in DOMAIN trig_log :
        (~trig_log[j].size_ok /\ trig_log[j].fate # "queued") =>
            /\ trig_log[j].fate = "dropped"
            /\ MainAlive

\* ------------------------------------------- properties of the routing

Min(a, b) == IF a < b THEN a ELSE b

\* C14: start-up never fails, and sender i (from 0) is routed to the primary
\* target iff i < min(to_first, T), T the number of senders, else to the
\* secondary target.
C14_Routing ==
    /\ route_pc # "panicked"
    /\ route_pc \in {"spawn", "done"} =>
          \A i \in 1..Len(targets) :
              targets[i] = IF i - 1 < Min(UnwrapOr(to_first, TO_FIRST_DEFAULT),
                                          SENDERS_PER_INTERFACE * interfaces)
                           THEN "target" ELSE "target_2"

\* ------------------------------------------- listener: further properties

\* C15: a step of listener 1 counts a frame in complete_images only if, with
\* the packet of that step, packets of every packet_number of that frame have
\* been received in the acquisition; a repeated packet_number does not stand
\* for a missing one.
C15_CompleteIffAll ==
    [][\A d \in WellFormed, dropped \in 0..MaxKernelDrop :
          (RecvPacket(d, dropped) /\ stats'.complete_images = stats.complete_images + 1) =>
              { rx_log'[i].packet_number :
                    i \in { k \in 1..Len(rx_log') : rx_log'[k].frame_number = d.frame_number
                                                    /\ rx_log'[k].size_ok } } = PacketNumbers]_vars

\* C16: when listener 1 processes a well-formed packet with no frame in
\* flight, so that it takes a buffer from the pool, the pool holds at least
\* one buffer and the listener keeps running.
C16_PoolNeverEmpty ==
    [][\A d \in WellFormed :
          (RecvPacket(d, 0) /\ last_image = NONE) =>
              /\ spare_images # <<>>
              /\ pc'[1] = "recv"]_vars

\* Listener 1 is in an acquisition: it has received a packet and waits for
\* the next with the 500 ms timeout set.
Acquiring == pc[1] = "recv" /\ read_timeout[1] = "500ms"

\* The datagrams of the acquisition so far are all well formed.
LogWellFormed ==
    \A i \in 1..Len(rx_log) : rx_log[i].size_ok /\ rx_log[i].packet_number \in PacketNumbers

\* C17: at every point of an acquisition of well-formed packets, images_seen
\* is the number of distinct frame_number values received so far.
C17_ImagesSeen ==
    (Acquiring /\ LogWellFormed) =>
        stats.images_seen = Cardinality({ rx_log[i].frame_number : i \in 1..Len(rx_log) })

\* The frame of packet i of the acquisition was closed when the packet
\* arrived: a packet of a higher frame_number had been received, or all the
\* packet numbers of its frame had.
ClosedBefore(i) ==
    \/ \E j \in 1..(i - 1) : rx_log[j].frame_number > rx_log[i].frame_number
    \/ { rx_log[j].packet_number :
             j \in { k \in 1..(i - 1) : rx_log[k].frame_number = rx_log[i].frame_number } }
           = PacketNumbers

\* C18: at every point of an acquisition of well-formed packets, out_of_order
\* is the number of packets received so far whose frame was closed when they
\* arrived, and the in-flight frame, if any, was not opened by such a packet.
C18_OutOfOrderCount ==
    (Acquiring /\ LogWellFormed) =>
        /\ stats.out_of_order = Cardinality({ i \in 1..Len(rx_log) : ClosedBefore(i) })
        /\ last_image # NONE =>
              \E i \in 1..Len(rx_log) :
                  /\ rx_log[i].frame_number = InFlight.frame_number
                  /\ ~ClosedBefore(i)

\* C19: in every rendezvous cycle, a listener resumes only when all
\* NumListeners listeners have ended an acquisition by timeout in that cycle,
\* and the cycle has exactly one leader.
C19_Rendezvous ==
    \A g \in BOOLEAN :
        /\ Cardinality(cycle[g].leaders) <= 1
        /\ cycle[g].resumed # {} =>
              /\ cycle[g].ended = Listeners
              /\ Cardinality(cycle[g].leaders) = 1

\* In the second cycle of the barrier, listener 1 came last, was elected
\* leader and has resumed, while another listener has yet to wake up.
C19_Witness ==
    /\ cycle[TRUE].ended = Listeners
    /\ cycle[TRUE].leaders = {1}
    /\ cycle[TRUE].resumed = {1}
    /\ \E l \in Peers : pc[l] = "barrier"

\* ------------------------------------------- further properties of the Deluge

\* Every sender has finished its k-th burst and reached the barrier.
BurstOver(k) ==
    \A s \in Senders :
        \/ elected.bursts[s] > k
        \/ elected.bursts[s] = k /\ burst_done[s]

\* C20: once every sender has finished the burst of the k-th accepted trigger
\* and reached the end-of-burst barrier, exactly one sender has been elected
\* leader for that burst and has logged it (all senders having left the
\* start-up sync.wait() before the first broadcast).
C20_OneLeader ==
    \A k \in 1..MaxTriggers :
        (~elected.early /\ BurstOver(k)) => Cardinality(elected.leaders[k]) = 1

\* Triggers accepted so far.
AcceptedCount == Cardinality({ i \in DOMAIN trig_log : trig_log[i].fate = "accepted" })

\* Sender s is blocked in sync.wait() at the end of a burst.
BlockedAtEnd(s) == send_pc[s] = "end_sync" /\ sync_local[s] = sync_gen

\* C21: when the barrier wait of the main thread for the k-th accepted
\* trigger returns, every sender has received that trigger and finished its
\* burst, and no sender is blocked on the barrier (all senders having left
\* the start-up sync.wait() before the first broadcast).
C21_Alignment ==
    [][(main_pc \in {"broadcast", "barrier"} /\ main_pc' = "recv" /\ ~elected'.early) =>
          /\ \A s \in Senders :
                \/ elected'.bursts[s] > AcceptedCount
                \/ elected'.bursts[s] = AcceptedCount /\ burst_done'[s]
          /\ \A s \in Senders : ~BlockedAtEnd(s)']_vars

\* ------------------------------------------- listener: progress and failure

\* C22: when the acquisition of listener 1 has ended by timeout and the
\* listener is in barrier.wait(), it is eventually Idle again, unless another
\* listener has panicked; no packet for the other listeners is needed.
C22_Progress ==
    (pc[1] = "barrier") ~> (Idle \/ \E l \in Peers : pc[l] = "panicked")

\* C23: once a listener has panicked the pipeline has stopped: no listener
\* processes a further packet (so no further lifecycle event reaches the
\* coordinator).
C23_NotIsolated ==
    [][(\E l \in Listeners : pc[l] = "panicked") =>
          /\ ~(\E d \in Datagrams, dropped \in 0..MaxKernelDrop : RecvPacket(d, dropped))
          /\ ~(\E l \in Peers, starting \in BOOLEAN, fatal \in BOOLEAN :
                  PeerRecvPacket(l, starting, fatal))]_vars

\* The acquisition so far has no kernel-reported drop, no duplicate packet,
\* no malformed packet and no packet of a lower frame_number than an earlier one.
CleanAcquisition ==
    /\ rx_kernel = 0
    /\ rx_log # <<>>
    /\ LogClean
    /\ \A i, j \in 1..Len(rx_log) : i < j => rx_log[i].frame_number <= rx_log[j].frame_number

\* Frames of the acquisition of which at least one packet is missing.
IncompleteFrames ==
    { f \in { rx_log[i].frame_number : i \in 1..Len(rx_log) } : PacketsOf(f) # PacketNumbers }

\* C24: when the receive timeout ends a clean acquisition, the statistics
\* printed satisfy received + packets_dropped = PacketsPerImage * images_seen
\* and images_seen - complete_images = number of frames with a missing
\* packet, the frame in flight at the timeout included.
C24_Accounting ==
    [][(RecvTimeout(1) /\ CleanAcquisition) =>
          /\ Len(rx_log) + stats.packets_dropped = PacketsPerImage * stats.images_seen
          /\ stats.images_seen - stats.complete_images = Cardinality(IncompleteFrames)]_vars

====
